---- MODULE Spec2Model ----
(***************************************************************************)
(* State-machine model of the simpleDDP client (src/src/simpleDDP.ts) and  *)
(* of ddpCollection (src/src/classes/ddpCollection.ts).                    *)
(*                                                                         *)
(* JavaScript values are encoded as strings: "undefined" is the value read *)
(* from a missing property.  A JavaScript object is a function whose       *)
(* DOMAIN is the set of its own property names.  JavaScript array indexes  *)
(* are 0-based in the source and 1-based here; findIndex's -1 is 0 here.   *)
(***************************************************************************)
EXTENDS Integers, Sequences, FiniteSets, TLC

VARIABLES
  opts,               \* constructor options (this._opts and the fields copied from it)
  collections,        \* this.collections : collection name -> array of documents
  collectionKeys,     \* Object.keys(this.collections): the names in insertion order
  onChangeFuncs,      \* this.onChangeFuncs : array of change listeners
  subs,               \* this.subs : array of subscriptions
  connected,          \* this.connected
  tryingToConnect,    \* this.tryingToConnect
  tryingToDisconnect, \* this.tryingToDisconnect
  willTryToReconnect, \* this.willTryToReconnect
  opGenId,            \* the counter behind this._opGenId
  ops,                \* listeners registered by clearData / importData / markAsReady
  connects,           \* futures returned by connect()
  disconnects,        \* futures returned by disconnect()
  methods,            \* futures returned by apply()
  socket,             \* the Transport's connection state
  eventQueue,         \* events handed to ddpConnection.emit and not yet delivered
  opHist,             \* history: per bulk operation, what happened since its call
  last                \* history: what the last step did

vars == << opts, collections, collectionKeys, onChangeFuncs, subs, connected, tryingToConnect,
           tryingToDisconnect, willTryToReconnect, opGenId, ops, connects,
           disconnects, methods, socket, eventQueue, opHist, last >>

----------------------------------------------------------------------------
(* Bounds of the model *)

MaxDocs == 2        \* documents per collection
MaxListeners == 1   \* change listeners registered
MaxOps == 2         \* bulk operations that take an operation id
MaxImport == 1      \* documents in one importData argument
MaxConnects == 1    \* connect() calls that wait for a connected event
MaxDisconnects == 1 \* disconnect() calls
MaxMethods == 1     \* apply() calls, those made by sub() included
MaxBatch == 2       \* documents per collection in one importData argument (SpecImport)
MaxSubCalls == 3    \* sub() calls (SpecSub)
MaxCalls == 2       \* apply() calls of the application (SpecMethod)
MaxStored == 3      \* documents of the collection fetch reads (SpecFetch)
MaxObservers == 2   \* change listeners registered (SpecStop)

----------------------------------------------------------------------------
(* JavaScript values and objects *)

Undef == "undefined"
EmptyObj == [k \in {} |-> Undef]
NoDoc == EmptyObj          \* stands for `false` where a payload holds no document
NoTag == -1                \* an event emitted without an operation id

Get(o, k) == IF k \in DOMAIN o THEN o[k] ELSE Undef

\* Object.assign(target, source)
ObjectAssign(target, source) ==
  [k \in DOMAIN target \cup DOMAIN source |->
     IF k \in DOMAIN source THEN source[k] ELSE target[k]]

\* delete o[k] for every k of ks
DeleteKeys(o, ks) == [k \in DOMAIN o \ ks |-> o[k]]

\* a == b on the encoded values
LooseEq(a, b) == a = b

\* whether `if (v)` takes the branch
Truthy(v) == v \notin {"false", Undef}

Range(s) == { s[i] : i \in DOMAIN s }

RemoveAt(s, i) == SubSeq(s, 1, i - 1) \o SubSeq(s, i + 1, Len(s))

\* arr.findIndex(obj => obj._id == id); 0 when there is none
FindIndex(arr, id) ==
  LET hits == { i \in DOMAIN arr : LooseEq(Get(arr[i], "_id"), id) }
  IN IF hits = {} THEN 0 ELSE CHOOSE i \in hits : \A j \in hits : i <= j

\* this.collections[name], for a name that is an own property
HasCollection(cols, name) == name \in DOMAIN cols

SetCollection(cols, name, arr) ==
  [c \in DOMAIN cols \cup {name} |-> IF c = name THEN arr ELSE cols[c]]

----------------------------------------------------------------------------
(* Change listeners *)

Preds == {"aIsX", "first", "vOver1"}

\* l.filter(doc, index, array) for the predicates of the model; `index` is 0-based
Pred(p, doc, index, arr) ==
  CASE p = "aIsX" -> Get(doc, "a") = "x"
    [] p = "first" -> index = 0
    [] p = "vOver1" -> Get(doc, "v") > 1
    [] OTHER -> FALSE

IsFunction(f) == f \in Preds

\* the callbacks l.f of the model: "f" only takes the change, "stop" calls
\* stopChangeListeners() of the server when it is invoked
Callbacks == {"f", "stop"}

\* one of the callbacks invoked in `calls`, made on the listeners ls, called
\* stopChangeListeners()
StopCalled(ls, calls) == \E n \in DOMAIN calls : ls[calls[n].l].f = "stop"

Call(l, shape, prev, next) == [l |-> l, shape |-> shape, prev |-> prev, next |-> next]

\* The callback of listener k for one diff. kind is "added", "changed" or "removed";
\* i is the 0-based index the source passes to the predicate. The result is
\* <<the calls made, whether the callback raised a TypeError>>.
NotifyOne(l, k, coll, kind, prev, next, i, arr) ==
  IF l.collection # coll THEN << <<>>, FALSE >>
  ELSE IF ~l.hasFilter THEN
    << << Call(k, kind, prev, next) >>, FALSE >>
  ELSE IF ~IsFunction(l.filter) THEN << <<>>, TRUE >>
  ELSE
    CASE kind = "added" ->
           IF Pred(l.filter, next, i, arr)
             THEN << << Call(k, "filtered", NoDoc, next) >>, FALSE >>
             ELSE << <<>>, FALSE >>
      [] kind = "changed" ->
           IF Pred(l.filter, prev, i, arr) \/ Pred(l.filter, next, i, arr)
             THEN << << Call(k, "filtered", prev, next) >>, FALSE >>
             ELSE << <<>>, FALSE >>
      [] OTHER ->
           IF Pred(l.filter, prev, i, arr)
             THEN << << Call(k, "filtered", prev, NoDoc) >>, FALSE >>
             ELSE << <<>>, FALSE >>

\* this.onChangeFuncs.forEach(...) from listener k on; a TypeError ends the loop
RECURSIVE Notify(_, _, _, _, _, _, _, _)
Notify(ls, k, coll, kind, prev, next, i, arr) ==
  IF k > Len(ls) THEN [calls |-> <<>>, threw |-> FALSE]
  ELSE LET one == NotifyOne(ls[k], k, coll, kind, prev, next, i, arr)
       IN IF one[2] THEN [calls |-> one[1], threw |-> TRUE]
          ELSE LET rest == Notify(ls, k + 1, coll, kind, prev, next, i, arr)
               IN [calls |-> one[1] \o rest.calls, threw |-> rest.threw]

----------------------------------------------------------------------------
(* Diff messages and their dispatchers *)

Msg(collection, id, fields, cleared) ==
  [collection |-> collection, id |-> id, fields |-> fields, cleared |-> cleared]

NoMsg == Msg(Undef, Undef, EmptyObj, {})

Dispatched(kind, cols, found, prev, next, n) ==
  [kind |-> kind, cols |-> cols, found |-> found, prev |-> prev, next |-> next,
   calls |-> n.calls, threw |-> n.threw]

\* the index (from 1) dispatchAdded finds for m.id in the collection, 0 for none
Found(cols, m) ==
  IF HasCollection(cols, m.collection) THEN FindIndex(cols[m.collection], m.id) ELSE 0

\* Evicted leaving the document with the identifier of the diff in place
EvictedNone(cols, m) ==
  IF HasCollection(cols, m.collection) THEN cols[m.collection] ELSE <<>>

\* the array dispatchAdded appends to: the collection without the first
\* document whose _id equals m.id
Evicted(cols, m) ==
  IF HasCollection(cols, m.collection)
    THEN LET arr == cols[m.collection]
             i == FindIndex(arr, m.id)
         IN IF i > 0 THEN RemoveAt(arr, i) ELSE arr
    ELSE <<>>

\* NewObj keeping the identifier and dropping the fields of the diff
NewObjWithoutFields(m) == [k \in {"_id"} |-> m.id]

NewObj(m) == ObjectAssign([k \in {"_id"} |-> m.id], m.fields)

dispatchAdded(cols, ls, m) ==
  LET arr == Append(Evicted(cols, m), NewObj(m))
      newCols == SetCollection(cols, m.collection, arr)
  IN Dispatched("added", newCols, Found(cols, m), NoDoc, NewObj(m),
                Notify(ls, 1, m.collection, "added", NoDoc, NewObj(m), Len(arr) - 1, arr))

\* ChangedDoc replacing the document by its identifier and the diff's fields
ChangedDocReplaces(doc, m) ==
  DeleteKeys(ObjectAssign([k \in {"_id"} |-> Get(doc, "_id")], m.fields), m.cleared)

\* the document after Object.assign(doc, m.fields) and delete doc[fieldName]
ChangedDoc(doc, m) == DeleteKeys(ObjectAssign(doc, m.fields), m.cleared)

\* dispatchChanged doing nothing for a document the collection does not hold
dispatchChangedDropsMissing(cols, ls, m) ==
  LET cols0 == IF HasCollection(cols, m.collection) THEN cols
               ELSE SetCollection(cols, m.collection, <<>>)
      i == FindIndex(cols0[m.collection], m.id)
  IN IF i > 0
       THEN LET prev == cols0[m.collection][i]
                next == ChangedDoc(prev, m)
                arr == [cols0[m.collection] EXCEPT ![i] = next]
            IN Dispatched("changed", SetCollection(cols0, m.collection, arr), i, prev, next,
                          Notify(ls, 1, m.collection, "changed", prev, next, i - 1, arr))
       ELSE Dispatched("changed", cols0, 0, NoDoc, NoDoc, [calls |-> <<>>, threw |-> FALSE])

dispatchChanged(cols, ls, m) ==
  LET cols0 == IF HasCollection(cols, m.collection) THEN cols
               ELSE SetCollection(cols, m.collection, <<>>)
      i == FindIndex(cols0[m.collection], m.id)
  IN IF i > 0
       THEN LET prev == cols0[m.collection][i]
                next == ChangedDoc(prev, m)
                arr == [cols0[m.collection] EXCEPT ![i] = next]
            IN Dispatched("changed", SetCollection(cols0, m.collection, arr), i, prev, next,
                          Notify(ls, 1, m.collection, "changed", prev, next, i - 1, arr))
       ELSE dispatchAdded(cols0, ls, m)

dispatchRemoved(cols, ls, m) ==
  LET cols0 == IF HasCollection(cols, m.collection) THEN cols
               ELSE SetCollection(cols, m.collection, <<>>)
      i == FindIndex(cols0[m.collection], m.id)
  IN IF i > 0
       THEN LET removedObj == cols0[m.collection][i]
                arr == RemoveAt(cols0[m.collection], i)
            IN Dispatched("removed", SetCollection(cols0, m.collection, arr), i, removedObj,
                          NoDoc,
                          Notify(ls, 1, m.collection, "removed", removedObj, NoDoc, i - 1, arr))
       ELSE Dispatched("removed", cols0, 0, NoDoc, NoDoc, [calls |-> <<>>, threw |-> FALSE])

----------------------------------------------------------------------------
(* Events, and the listeners of the bulk operations *)

Event(ev, m, tag) == [ev |-> ev, m |-> m, tag |-> tag]

\* Object.keys(this.collections) after the collections became cols
KeysAfter(keys, cols) ==
  LET new == DOMAIN cols \ Range(keys)
  IN IF new = {} THEN keys ELSE Append(keys, CHOOSE c \in new : TRUE)

RECURSIVE SumLen(_, _)
SumLen(keys, obj) ==
  IF keys = <<>> THEN 0 ELSE Len(obj[Head(keys)]) + SumLen(Tail(keys), obj)

\* n.toString()
RECURSIVE Digits(_)
Digits(n) ==
  LET digit == << "0", "1", "2", "3", "4", "5", "6", "7", "8", "9" >>
  IN IF n < 10 THEN << digit[n + 1] >> ELSE Digits(n \div 10) \o << digit[(n % 10) + 1] >>

\* this._id + "-" + this._opGenId(), a string, for the instance whose _id is
\* inst and the n-th value of its counter; the model names an operation of the
\* instance by n alone
UniqueId(inst, n) == Digits(inst) \o << "-" >> \o Digits(n)

\* the listener a bulk operation registers with this.on(ev, ...)
Op(id, ev, total, thenReady) ==
  [id |-> id, ev |-> ev, total |-> total, counter |-> 0, listening |-> TRUE,
   resolved |-> FALSE, thenReady |-> thenReady]

\* CountOne counting every event of its kind, whatever id it carries
CountOneAnyTag(op, ev, tag) ==
  IF op.listening /\ op.ev = ev
    THEN IF op.counter + 1 = op.total
           THEN [op EXCEPT !.counter = @ + 1, !.listening = FALSE, !.resolved = TRUE]
           ELSE [op EXCEPT !.counter = @ + 1]
    ELSE op

\* the listener of clearData (lines 540-548) and of importData (lines 581-589)
\* called with an event (m, id)
CountOne(op, ev, tag) ==
  IF op.listening /\ op.ev = ev /\ tag = op.id
    THEN IF op.counter + 1 = op.total
           THEN [op EXCEPT !.counter = @ + 1, !.listening = FALSE, !.resolved = TRUE]
           ELSE [op EXCEPT !.counter = @ + 1]
    ELSE op

Count(os, ev, tag) == [k \in DOMAIN os |-> CountOne(os[k], ev, tag)]

\* the `removed` events clearData emits: one per stored document, with id: doc.id
RECURSIVE RemovedEvents(_, _, _)
RemovedEvents(keys, cols, tag) ==
  IF keys = <<>> THEN <<>>
  ELSE [i \in 1..Len(cols[Head(keys)]) |->
          Event("removed", Msg(Head(keys), Get(cols[Head(keys)][i], "id"), EmptyObj, {}), tag)]
       \o RemovedEvents(Tail(keys), cols, tag)

\* the `added` events importData emits for data, an array of <<name, documents>>
RECURSIVE AddedEvents(_, _)
AddedEvents(data, tag) ==
  IF data = <<>> THEN <<>>
  ELSE [i \in 1..Len(Head(data)[2]) |->
          Event("added", Msg(Head(data)[1], Get(Head(data)[2][i], "id"),
                             DeleteKeys(Head(data)[2][i], {"id"}), {}), tag)]
       \o AddedEvents(Tail(data), tag)

RECURSIVE DataLen(_)
DataLen(data) == IF data = <<>> THEN 0 ELSE Len(Head(data)[2]) + DataLen(Tail(data))

\* clearData() on the collections cols: resolves at once on an empty store,
\* otherwise takes an operation id, registers its listener and emits
clearData(keys, cols, os, gen, thenReady) ==
  LET totalDocuments == SumLen(keys, cols)
  IN IF totalDocuments = 0
       THEN [ops |-> os, gen |-> gen, emitted |-> <<>>, resolvedNow |-> TRUE,
             total |-> 0]
       ELSE [ops |-> Append(os, Op(gen, "removed", totalDocuments, thenReady)),
             gen |-> gen + 1, emitted |-> RemovedEvents(keys, cols, gen),
             resolvedNow |-> FALSE, total |-> totalDocuments]

\* sub.isOn() and sub.restart() of a Subscription: restart resumes it, it is
\* active afterwards
isOn(sub) == sub.on
restart(sub) == [sub EXCEPT !.on = TRUE]

\* restartSubs calling sub.restart() on every subscription, active or stopped
restartSubsEvery(ss) == DOMAIN ss

\* this.restartSubs(): the subscriptions sub.restart() is called on
restartSubs(ss) == { k \in DOMAIN ss : ss[k].on }

\* this.subs after restartSubs()
AfterRestart(ss) ==
  [k \in DOMAIN ss |-> IF k \in restartSubs(ss) THEN restart(ss[k]) ELSE ss[k]]

\* the operations that resolved in this step and were started by a connected
\* event: the continuation of each runs emit('clientReady') and restartSubs()
ReadyNow(os0, os1) ==
  { k \in DOMAIN os0 : ~os0[k].resolved /\ os1[k].resolved /\ os1[k].thenReady }

----------------------------------------------------------------------------
(* The history variable *)

NoDispatch ==
  [kind |-> "none", found |-> 0, prev |-> NoDoc, next |-> NoDoc, calls |-> <<>>,
   threw |-> FALSE]

\* what the dispatcher did, without the collections it produced
Summary(d) ==
  [kind |-> d.kind, found |-> d.found, prev |-> d.prev, next |-> d.next,
   calls |-> d.calls, threw |-> d.threw]

\* touched: an added or changed diff was delivered since the call; delivered:
\* events carrying the operation's id that the Transport delivered; readied:
\* the continuation of the operation ran emit('clientReady') and restartSubs();
\* data: the argument of importData; alone: the call found no document stored
\* and no event pending, and every event delivered since carried its id
NewHist ==
  [touched |-> FALSE, delivered |-> 0, readied |-> FALSE, data |-> <<>>, alone |-> FALSE]

HistAfter(h, os, e, ready) ==
  [k \in DOMAIN h |->
     [touched |-> h[k].touched \/ e.ev \in {"added", "changed"},
      delivered |-> h[k].delivered + (IF e.tag = os[k].id THEN 1 ELSE 0),
      readied |-> h[k].readied \/ k \in ready,
      data |-> h[k].data,
      alone |-> h[k].alone /\ e.tag = os[k].id]]

\* the history of the operations os1, of which at most the last is new
HistFor(h, os1) == IF Len(os1) > Len(h) THEN Append(h, NewHist) ELSE h

Awaiting(fs) == Cardinality({ k \in DOMAIN fs : fs[k].handler })

\* kind: the operation or event of the step; pre: the flags before it;
\* transport: the call made on the Transport; resolvedNow: the returned future
\* was resolved inside the call; emitted: diff events handed to emit; total: the
\* documents counted; readied: emit('clientReady') calls, each followed by
\* restartSubs() (the event goes to the Transport: no listener of the client
\* takes it, so it is not queued); restarted: subscriptions restarted; arg: the
\* argument of the call or the message of the event; ret: the value returned
Step(kind) ==
  [kind |-> kind, tag |-> NoTag, m |-> NoMsg, d |-> NoDispatch,
   pre |-> [connected |-> connected, tryingToConnect |-> tryingToConnect,
            tryingToDisconnect |-> tryingToDisconnect,
            awaiting |-> Awaiting(disconnects)],
   transport |-> "none", resolvedNow |-> FALSE, emitted |-> 0, total |-> 0,
   readied |-> 0, restarted |-> {}, arg |-> Undef, ret |-> Undef]

----------------------------------------------------------------------------
(* The Transport: connect(), disconnect() and the socket behind them *)

TransportConnect(s) == IF s = "closed" THEN "connecting" ELSE s

TransportDisconnect(s) == IF s \in {"connecting", "open"} THEN "closing" ELSE s

\* the socket after it closed: the Transport retries when auto-reconnect is on
AfterClose(s, retry) ==
  IF s = "closing" THEN "closed" ELSE IF retry THEN "connecting" ELSE "closed"

----------------------------------------------------------------------------
(* Construction *)

Options ==
  [autoConnect : BOOLEAN, autoReconnect : BOOLEAN,
   clearDataOnReconnection : BOOLEAN, maxTimeout : {0, 1}]

Future(timer) == [handler |-> TRUE, timer |-> timer, state |-> "pending", settles |-> 0]

Constructed(o) ==
  /\ opts = o
  /\ collections = EmptyObj
  /\ collectionKeys = <<>>
  /\ onChangeFuncs = <<>>
  /\ subs = <<>>
  /\ connected = FALSE
  /\ tryingToConnect = o.autoConnect
  /\ tryingToDisconnect = FALSE
  /\ willTryToReconnect = o.autoReconnect
  /\ opGenId = 0
  /\ ops = <<>>
  /\ connects = <<>>
  /\ disconnects = <<>>
  /\ methods = <<>>
  /\ socket = IF o.autoConnect THEN "connecting" ELSE "closed"
  /\ eventQueue = <<>>
  /\ opHist = <<>>
  /\ last = [kind |-> "init", tag |-> NoTag, m |-> NoMsg, d |-> NoDispatch,
             pre |-> [connected |-> FALSE, tryingToConnect |-> o.autoConnect,
                      tryingToDisconnect |-> FALSE, awaiting |-> 0],
             transport |-> "none", resolvedNow |-> FALSE, emitted |-> 0, total |-> 0,
             readied |-> 0, restarted |-> {}, arg |-> Undef, ret |-> Undef]

----------------------------------------------------------------------------
(* Delivery of one event to the listeners registered on the Transport *)

lifecycle == << connected, tryingToConnect, tryingToDisconnect, willTryToReconnect,
                connects, disconnects, socket >>

Dispatch(e) ==
  CASE e.ev = "added" -> dispatchAdded(collections, onChangeFuncs, e.m)
    [] e.ev = "changed" -> dispatchChanged(collections, onChangeFuncs, e.m)
    [] OTHER -> dispatchRemoved(collections, onChangeFuncs, e.m)

\* added / changed / removed: the dispatcher registered by the constructor runs
\* first, then the listeners of the bulk operations; an exception of the
\* dispatcher ends the delivery. q is the queue the event leaves behind.
DeliverDiff(e, q) ==
  LET d == Dispatch(e)
      ops1 == IF d.threw THEN ops ELSE Count(ops, e.ev, e.tag)
      ready == ReadyNow(ops, ops1)
  IN /\ collections' = d.cols
     /\ collectionKeys' = KeysAfter(collectionKeys, d.cols)
     /\ ops' = ops1
     /\ opHist' = HistAfter(opHist, ops, e, ready)
     /\ eventQueue' = q
     /\ last' = [Step(e.ev) EXCEPT !.tag = e.tag, !.m = e.m, !.d = Summary(d),
                                   !.readied = Cardinality(ready),
                                   !.restarted = IF ready = {} THEN {} ELSE restartSubs(subs)]
     /\ onChangeFuncs' = IF StopCalled(onChangeFuncs, d.calls) THEN <<>> ELSE onChangeFuncs
     /\ subs' = IF ready = {} THEN subs ELSE AfterRestart(subs)
     /\ UNCHANGED << opts, opGenId, methods, lifecycle >>

\* the handler connect() registers (lines 352-357), run for every waiting call
Resolve(f) ==
  IF f.handler
    THEN [f EXCEPT !.handler = FALSE, !.timer = FALSE, !.settles = @ + 1,
                   !.state = IF @ = "pending" THEN "resolved" ELSE @]
    ELSE f

\* the handler disconnect() registers (lines 385-389)
ResolveDisconnect(f) ==
  IF f.handler
    THEN [f EXCEPT !.handler = FALSE, !.settles = @ + 1,
                   !.state = IF @ = "pending" THEN "resolved" ELSE @]
    ELSE f

\* ConnectedClear not waiting for clearData(): clientReady and restartSubs at once
ConnectedClearNoWait ==
  IF opts.clearDataOnReconnection
    THEN [clearData(collectionKeys, collections, ops, opGenId, TRUE) EXCEPT
            !.resolvedNow = TRUE]
    ELSE [ops |-> ops, gen |-> opGenId, emitted |-> <<>>, resolvedNow |-> TRUE,
          total |-> 0]

\* the clear operation the connected event starts (lines 146-157)
ConnectedClear ==
  IF opts.clearDataOnReconnection
    THEN clearData(collectionKeys, collections, ops, opGenId, TRUE)
    ELSE [ops |-> ops, gen |-> opGenId, emitted |-> <<>>, resolvedNow |-> TRUE,
          total |-> 0]

DeliverConnected ==
  LET cd == ConnectedClear
  IN /\ socket = "connecting"
     /\ cd.gen <= MaxOps
     /\ socket' = "open"
     /\ connected' = TRUE
     /\ tryingToConnect' = FALSE
     /\ ops' = cd.ops
     /\ opHist' = HistFor(opHist, cd.ops)
     /\ opGenId' = cd.gen
     /\ eventQueue' = eventQueue \o cd.emitted
     /\ connects' = [k \in DOMAIN connects |-> Resolve(connects[k])]
     /\ last' = [Step("connected") EXCEPT
                   !.emitted = Len(cd.emitted),
                   !.total = cd.total,
                   !.readied = IF cd.resolvedNow THEN 1 ELSE 0,
                   !.restarted = IF cd.resolvedNow THEN restartSubs(subs) ELSE {}]
     /\ subs' = IF cd.resolvedNow THEN AfterRestart(subs) ELSE subs
     /\ UNCHANGED << opts, collections, collectionKeys, onChangeFuncs,
                     tryingToDisconnect, willTryToReconnect, disconnects, methods >>

\* the disconnected handler setting tryingToConnect from the option, not the flag
DeliverDisconnectedFromOption ==
  /\ socket \in {"connecting", "open", "closing"}
  /\ socket' = AfterClose(socket, willTryToReconnect)
  /\ connected' = FALSE
  /\ tryingToDisconnect' = FALSE
  /\ tryingToConnect' = opts.autoReconnect
  /\ disconnects' = [k \in DOMAIN disconnects |-> ResolveDisconnect(disconnects[k])]
  /\ last' = Step("disconnected")
  /\ UNCHANGED << opts, collections, collectionKeys, onChangeFuncs, subs,
                  willTryToReconnect, opGenId, ops, opHist, connects, methods, eventQueue >>

\* DeliverDisconnected rejecting the method calls that are pending and
\* removing their result listeners
DeliverDisconnectedFailsCalls ==
  /\ socket \in {"connecting", "open", "closing"}
  /\ socket' = AfterClose(socket, willTryToReconnect)
  /\ connected' = FALSE
  /\ tryingToDisconnect' = FALSE
  /\ tryingToConnect' = willTryToReconnect
  /\ disconnects' = [k \in DOMAIN disconnects |-> ResolveDisconnect(disconnects[k])]
  /\ methods' = [k \in DOMAIN methods |->
                   IF methods[k].state = "pending"
                     THEN [methods[k] EXCEPT !.state = "rejected", !.settles = @ + 1,
                                             !.value = "DISCONNECTED", !.timer = FALSE,
                                             !.listener = FALSE]
                     ELSE methods[k]]
  /\ last' = Step("disconnected")
  /\ UNCHANGED << opts, collections, collectionKeys, onChangeFuncs, subs,
                  willTryToReconnect, opGenId, ops, opHist, connects, eventQueue >>

\* the disconnected event, lines 161-165, and the handlers of disconnect()
DeliverDisconnected ==
  /\ socket \in {"connecting", "open", "closing"}
  /\ socket' = AfterClose(socket, willTryToReconnect)
  /\ connected' = FALSE
  /\ tryingToDisconnect' = FALSE
  /\ tryingToConnect' = willTryToReconnect
  /\ disconnects' = [k \in DOMAIN disconnects |-> ResolveDisconnect(disconnects[k])]
  /\ last' = Step("disconnected")
  /\ UNCHANGED << opts, collections, collectionKeys, onChangeFuncs, subs,
                  willTryToReconnect, opGenId, ops, opHist, connects, methods, eventQueue >>

\* the next event handed to emit, a diff, reaches the listeners
DeliverQueued ==
  /\ eventQueue # <<>>
  /\ Head(eventQueue).ev \in {"added", "changed", "removed"}
  /\ DeliverDiff(Head(eventQueue), Tail(eventQueue))

\* a ready event reaches the listeners markAsReady registered (lines 637-642);
\* q is the queue the event leaves behind
DeliverReadyEvent(e, q) ==
  /\ ops' = Count(ops, e.ev, e.tag)
  /\ opHist' = HistAfter(opHist, ops, e, {})
  /\ eventQueue' = q
  /\ last' = [Step("ready") EXCEPT !.tag = e.tag, !.arg = e.m]
  /\ UNCHANGED << opts, collections, collectionKeys, onChangeFuncs, subs, opGenId, methods,
                  lifecycle >>

\* the next event handed to emit, a ready message, reaches the listeners
DeliverReady ==
  /\ eventQueue # <<>>
  /\ Head(eventQueue).ev = "ready"
  /\ DeliverReadyEvent(Head(eventQueue), Tail(eventQueue))

----------------------------------------------------------------------------
(* The calls of the public interface *)

\* connect(), lines 342-370
Connect ==
  /\ connected \/ Len(connects) < MaxConnects
  /\ willTryToReconnect' = opts.autoReconnect
  /\ socket' = IF ~tryingToConnect THEN TransportConnect(socket) ELSE socket
  /\ tryingToConnect' = TRUE
  /\ connects' = IF ~connected THEN Append(connects, Future(opts.maxTimeout # 0))
                 ELSE connects
  /\ last' = [Step("connect") EXCEPT
                !.transport = IF ~tryingToConnect THEN "connect" ELSE "none",
                !.resolvedNow = connected]
  /\ UNCHANGED << opts, collections, collectionKeys, onChangeFuncs, subs, connected,
                  tryingToDisconnect, opGenId, ops, opHist, disconnects, methods, eventQueue >>

\* ConnectTimeout without connectionHandler.stop()
ConnectTimeoutKeepsHandler(k) ==
  /\ connects[k].timer
  /\ connects' = [connects EXCEPT ![k] =
                    [@ EXCEPT !.timer = FALSE, !.settles = @ + 1,
                              !.state = IF @ = "pending" THEN "rejected" ELSE @]]
  /\ tryingToConnect' = FALSE
  /\ last' = Step("connectTimeout")
  /\ UNCHANGED << opts, collections, collectionKeys, onChangeFuncs, subs, connected,
                  tryingToDisconnect, willTryToReconnect, opGenId, ops, opHist, disconnects,
                  methods, socket, eventQueue >>

\* the timer of connect() call k fires, lines 360-364
ConnectTimeout(k) ==
  /\ connects[k].timer
  /\ connects' = [connects EXCEPT ![k] =
                    [@ EXCEPT !.handler = FALSE, !.timer = FALSE, !.settles = @ + 1,
                              !.state = IF @ = "pending" THEN "rejected" ELSE @]]
  /\ tryingToConnect' = FALSE
  /\ last' = Step("connectTimeout")
  /\ UNCHANGED << opts, collections, collectionKeys, onChangeFuncs, subs, connected,
                  tryingToDisconnect, willTryToReconnect, opGenId, ops, opHist, disconnects,
                  methods, socket, eventQueue >>

\* disconnect(), lines 377-394
Disconnect ==
  /\ ~connected \/ Len(disconnects) < MaxDisconnects
  /\ willTryToReconnect' = FALSE
  /\ socket' = IF ~tryingToDisconnect THEN TransportDisconnect(socket) ELSE socket
  /\ tryingToDisconnect' = TRUE
  /\ disconnects' = IF connected THEN Append(disconnects, Future(FALSE)) ELSE disconnects
  /\ last' = [Step("disconnect") EXCEPT
                !.transport = IF ~tryingToDisconnect THEN "disconnect" ELSE "none",
                !.resolvedNow = ~connected]
  /\ UNCHANGED << opts, collections, collectionKeys, onChangeFuncs, subs, connected,
                  tryingToConnect, opGenId, ops, opHist, connects, methods, eventQueue >>

\* clearData() called by the application, lines 527-561
ClearData ==
  LET cd == clearData(collectionKeys, collections, ops, opGenId, FALSE)
  IN /\ cd.gen <= MaxOps
     /\ ops' = cd.ops
     /\ opHist' = HistFor(opHist, cd.ops)
     /\ opGenId' = cd.gen
     /\ eventQueue' = eventQueue \o cd.emitted
     /\ last' = [Step("clearData") EXCEPT !.resolvedNow = cd.resolvedNow,
                                          !.emitted = Len(cd.emitted),
                                          !.total = cd.total]
     /\ UNCHANGED << opts, collections, collectionKeys, onChangeFuncs, subs, methods,
                     lifecycle >>

\* ImportData taking the operation id of the call before it
ImportDataReusesId(data) ==
  LET id == IF opGenId = 0 THEN 0 ELSE opGenId - 1
  IN /\ opGenId < MaxOps
     /\ ops' = Append(ops, Op(id, "added", DataLen(data), FALSE))
     /\ opHist' = Append(opHist, [NewHist EXCEPT !.data = data])
     /\ opGenId' = opGenId + 1
     /\ eventQueue' = eventQueue \o AddedEvents(data, id)
     /\ last' = [Step("importData") EXCEPT !.emitted = DataLen(data),
                                           !.total = DataLen(data)]
     /\ UNCHANGED << opts, collections, collectionKeys, onChangeFuncs, subs, methods,
                     lifecycle >>

\* importData(data), lines 569-606; data is an array of <<name, documents>>
ImportData(data) ==
  /\ opGenId < MaxOps
  /\ ops' = Append(ops, Op(opGenId, "added", DataLen(data), FALSE))
  /\ opHist' = Append(opHist, [NewHist EXCEPT
                                 !.data = data,
                                 !.alone = SumLen(collectionKeys, collections) = 0
                                           /\ eventQueue = <<>>])
  /\ opGenId' = opGenId + 1
  /\ eventQueue' = eventQueue \o AddedEvents(data, opGenId)
  /\ last' = [Step("importData") EXCEPT !.emitted = DataLen(data),
                                        !.total = DataLen(data)]
  /\ UNCHANGED << opts, collections, collectionKeys, onChangeFuncs, subs, methods,
                  lifecycle >>

\* a ready message naming subscriptions by their correlation ids
ReadyMsg(ids) == [msg |-> "ready", subs |-> ids]

\* ddpConnection.emit(ev, m, id): the Transport delivers the event in a later
\* turn of the event loop; q is the queue of events, os the listeners of the
\* bulk operations
emit(q, os, e) == [queue |-> Append(q, e), ops |-> os]

\* MarkAsReady with the message delivered inside emit, before the listener
\* of the call is registered
MarkAsReadyDeliveredInsideEmit(ss) ==
  LET sent == [queue |-> eventQueue, ops |-> Count(ops, "ready", opGenId)]
  IN /\ opGenId < MaxOps
     /\ opGenId' = opGenId + 1
     /\ eventQueue' = sent.queue
     /\ ops' = Append(sent.ops, Op(opGenId, "ready", 1, FALSE))
     /\ opHist' = Append(opHist, NewHist)
     /\ last' = [Step("markAsReady") EXCEPT !.tag = opGenId, !.arg = ss,
                                            !.emitted = 1]
     /\ UNCHANGED << opts, collections, collectionKeys, onChangeFuncs, subs, methods,
                     lifecycle >>

\* markAsReady(ss), lines 628-644, ss an array of indexes into this.subs: the
\* message is emitted first, the listener registered after it
MarkAsReady(ss) ==
  LET sent == emit(eventQueue, ops, Event("ready", ReadyMsg(ss), opGenId))
  IN /\ opGenId < MaxOps
     /\ opGenId' = opGenId + 1
     /\ eventQueue' = sent.queue
     /\ ops' = Append(sent.ops, Op(opGenId, "ready", 1, FALSE))
     /\ opHist' = Append(opHist, NewHist)
     /\ last' = [Step("markAsReady") EXCEPT !.tag = opGenId, !.arg = ss,
                                            !.emitted = Len(sent.queue) - Len(eventQueue)]
     /\ UNCHANGED << opts, collections, collectionKeys, onChangeFuncs, subs, methods,
                     lifecycle >>

\* apply(method, args): the Transport returns a fresh correlation id, the
\* result listener is registered and the timer armed, lines 419-447
apply(ms) ==
  Append(ms, [id |-> Len(ms), listener |-> TRUE, timer |-> opts.maxTimeout # 0,
              state |-> "pending", settles |-> 0, value |-> Undef])

\* apply(method, args) called by the application
Apply ==
  /\ Len(methods) < MaxCalls
  /\ methods' = apply(methods)
  /\ last' = [Step("apply") EXCEPT !.ret = Len(methods)]
  /\ UNCHANGED << opts, collections, collectionKeys, onChangeFuncs, subs, opGenId, ops,
                  opHist, eventQueue, lifecycle >>

\* a result message of the server
Result(id, error, result) == [id |-> id, error |-> error, result |-> result]

\* resolve(value) or reject(value) on the promise of call f: only the first
\* of them settles it
Settle(f, state, value) ==
  [f EXCEPT !.settles = @ + 1,
            !.state = IF f.state = "pending" THEN state ELSE @,
            !.value = IF f.state = "pending" THEN value ELSE @]

\* onMethodResult settling on every result message, whatever its id
onMethodResultAnyId(f, message) ==
  IF f.listener
    THEN [(IF ~Truthy(message.error) THEN Settle(f, "resolved", message.result)
           ELSE Settle(f, "rejected", message.error))
          EXCEPT !.timer = FALSE, !.listener = FALSE]
    ELSE f

\* onMethodResult(message) of call f, lines 426-436, while it is registered
onMethodResult(f, message) ==
  IF f.listener /\ LooseEq(message.id, f.id)
    THEN [(IF ~Truthy(message.error) THEN Settle(f, "resolved", message.result)
           ELSE Settle(f, "rejected", message.error))
          EXCEPT !.timer = FALSE, !.listener = FALSE]
    ELSE f

\* the Transport delivers a result message to the listeners registered on it
DeliverResult(message) ==
  /\ methods' = [k \in DOMAIN methods |-> onMethodResult(methods[k], message)]
  /\ last' = [Step("result") EXCEPT !.arg = message]
  /\ UNCHANGED << opts, collections, collectionKeys, onChangeFuncs, subs, opGenId, ops,
                  opHist, eventQueue, lifecycle >>

\* MethodTimeout leaving onMethodResult registered
MethodTimeoutKeepsListener(k) ==
  /\ methods[k].timer
  /\ methods' = [methods EXCEPT ![k] =
                    [Settle(@, "rejected", "MAX_TIMEOUT_REACHED") EXCEPT !.timer = FALSE]]
  /\ last' = [Step("methodTimeout") EXCEPT !.arg = k]
  /\ UNCHANGED << opts, collections, collectionKeys, onChangeFuncs, subs, opGenId, ops,
                  opHist, eventQueue, lifecycle >>

\* the timer of call k fires, lines 441-444
MethodTimeout(k) ==
  /\ methods[k].timer
  /\ methods' = [methods EXCEPT ![k] =
                    [Settle(@, "rejected", "MAX_TIMEOUT_REACHED")
                     EXCEPT !.timer = FALSE, !.listener = FALSE]]
  /\ last' = [Step("methodTimeout") EXCEPT !.arg = k]
  /\ UNCHANGED << opts, collections, collectionKeys, onChangeFuncs, subs, opGenId, ops,
                  opHist, eventQueue, lifecycle >>

\* Array.isArray(args) ? args : []
NormArgs(args) == IF args.isArray THEN args.items ELSE <<>>

isEqual(a, b) == a = b

\* FindSub looking at the name of the publication only
FindSubByName(ss, pubname, args) ==
  LET hits == { k \in DOMAIN ss : ss[k].pubname = pubname }
  IN IF hits = {} THEN 0 ELSE CHOOSE k \in hits : \A j \in hits : k <= j

\* this.subs.find(...): the index of the first subscription with this name and
\* these arguments, 0 when there is none
FindSub(ss, pubname, args) ==
  LET hits == { k \in DOMAIN ss : ss[k].pubname = pubname /\ isEqual(ss[k].args, NormArgs(args)) }
  IN IF hits = {} THEN 0 ELSE CHOOSE k \in hits : \A j \in hits : k <= j

\* sub(pubname, args), lines 469-481, while fewer than `bound` method calls were
\* made; the Subscription returned is named by its index in this.subs
SubWithin(pubname, args, bound) ==
  LET k == FindSub(subs, pubname, args)
  IN /\ Len(methods) < bound
     /\ methods' = apply(methods)
     /\ subs' = IF k = 0
                  THEN Append(subs, [pubname |-> pubname, args |-> NormArgs(args), on |-> TRUE])
                  ELSE [subs EXCEPT ![k].on = TRUE]
     /\ last' = [Step("sub") EXCEPT !.arg = << pubname, args >>,
                                    !.ret = IF k = 0 THEN Len(subs) + 1 ELSE k]
     /\ UNCHANGED << opts, collections, collectionKeys, onChangeFuncs, opGenId, ops, opHist,
                     eventQueue, lifecycle >>

Sub(pubname, args) == SubWithin(pubname, args, MaxMethods)

\* subscription k is stopped through its handle
StopSub(k) ==
  /\ subs[k].on
  /\ subs' = [subs EXCEPT ![k].on = FALSE]
  /\ last' = Step("stopSub")
  /\ UNCHANGED << opts, collections, collectionKeys, onChangeFuncs, opGenId, ops, opHist,
                  methods, eventQueue, lifecycle >>

\* the listener object ddpCollection.onChange builds, lines 121-132: `filter` is
\* always an own property of it
Listener(name, collFilter, filter) ==
  [collection |-> name, hasFilter |-> TRUE, f |-> "f",
   filter |-> IF Truthy(filter) THEN filter
              ELSE IF Truthy(collFilter) THEN collFilter ELSE filter]

\* collection(name).filter(collFilter).onChange(f, filter), while fewer than
\* `bound` listeners are registered
OnChangeWithin(name, collFilter, filter, f, bound) ==
  /\ Len(onChangeFuncs) < bound
  /\ onChangeFuncs' =
       Append(onChangeFuncs, [Listener(name, collFilter, filter) EXCEPT !.f = f])
  /\ last' = [Step("onChange") EXCEPT !.arg = f]
  /\ UNCHANGED << opts, collections, collectionKeys, subs, opGenId, ops, opHist, methods,
                  eventQueue, lifecycle >>

OnChange(name, collFilter, filter) ==
  OnChangeWithin(name, collFilter, filter, "f", MaxListeners)

\* stopChangeListeners(), called by the application between two events
StopChangeListeners ==
  /\ onChangeFuncs' = <<>>
  /\ last' = Step("stopChangeListeners")
  /\ UNCHANGED << opts, collections, collectionKeys, subs, opGenId, ops, opHist, methods,
                  eventQueue, lifecycle >>

----------------------------------------------------------------------------
(* Queries: ddpCollection.fetch *)

\* the values of settings.skip and settings.limit: a number, Infinity, undefined
Num(n) == [type |-> "number", inf |-> FALSE, n |-> n]
Infinity == [type |-> "number", inf |-> TRUE, n |-> 0]
NoNumber == [type |-> "undefined", inf |-> FALSE, n |-> 0]

Min(a, b) == IF a < b THEN a ELSE b
Max(a, b) == IF a > b THEN a ELSE b

\* the 0-based index Array.prototype.splice makes of its argument `start`
ClampStart(len, start) ==
  IF start.inf THEN len
  ELSE IF start.n < 0 THEN Max(len + start.n, 0) ELSE Min(start.n, len)

\* arr after arr.splice(start): everything from `start` on is deleted
SpliceFrom(arr, start) == SubSeq(arr, 1, ClampStart(Len(arr), start))

\* arr after arr.splice(0, deleteCount)
SpliceFirst(arr, deleteCount) ==
  LET dc == IF deleteCount.inf THEN Len(arr) ELSE Min(Max(deleteCount.n, 0), Len(arr))
  IN SubSeq(arr, dc + 1, Len(arr))

Comparators == {"byV"}

\* sort(a, b) for the comparators of the model
Compare(cmp, a, b) ==
  CASE cmp = "byV" -> Get(a, "v") - Get(b, "v")
    [] OTHER -> 0

\* Array.prototype.sort(cmp): a stable sort, here by insertion
RECURSIVE Insert(_, _, _)
Insert(cmp, sorted, x) ==
  IF sorted = <<>> THEN << x >>
  ELSE IF Compare(cmp, Head(sorted), x) > 0 THEN << x >> \o sorted
  ELSE << Head(sorted) >> \o Insert(cmp, Tail(sorted), x)

RECURSIVE Sort(_, _)
Sort(cmp, arr) ==
  IF arr = <<>> THEN <<>>
  ELSE Insert(cmp, Sort(cmp, SubSeq(arr, 1, Len(arr) - 1)), arr[Len(arr)])

\* arr.filter(p), from the 1-based position i on: a new array
RECURSIVE FilterFrom(_, _, _)
FilterFrom(p, arr, i) ==
  IF i > Len(arr) THEN <<>>
  ELSE (IF Pred(p, arr[i], i - 1, arr) THEN << arr[i] >> ELSE <<>>)
       \o FilterFrom(p, arr, i + 1)

\* an array value and whether it is the stored array itself
Ref(arr, aliased) == [arr |-> arr, aliased |-> aliased]

\* fullCopy(c): a deep copy, which shares nothing with c
fullCopy(arr) == Ref(arr, FALSE)

Settings(skip, limit, sort) == [skip |-> skip, limit |-> limit, sort |-> sort]

\* fetch() called without settings
NoSettings == Settings(NoNumber, NoNumber, Undef)

\* fetch truncating to `limit` before it drops the first `skip`
fetchLimitFirst(cols, name, filter, settings) ==
  LET c == IF HasCollection(cols, name) THEN cols[name] ELSE <<>>
      copy == IF HasCollection(cols, name) THEN fullCopy(c) ELSE Ref(<<>>, FALSE)
      filtered == IF Truthy(filter) THEN Ref(FilterFrom(filter, copy.arr, 1), FALSE)
                  ELSE copy
      sorted == IF Truthy(settings.sort)
                  THEN [filtered EXCEPT !.arr = Sort(settings.sort, @)] ELSE filtered
      limited == IF settings.limit.type = "number"
                   THEN [sorted EXCEPT !.arr = SpliceFrom(@, settings.limit)] ELSE sorted
      skipped == IF settings.skip.type = "number"
                   THEN [limited EXCEPT !.arr = SpliceFirst(@, settings.skip)] ELSE limited
  IN [ret |-> skipped.arr, stored |-> IF skipped.aliased THEN skipped.arr ELSE c]

\* collection(name).filter(filter).fetch(settings), lines 84-100: the array
\* returned and the stored array after the call
fetch(cols, name, filter, settings) ==
  LET c == IF HasCollection(cols, name) THEN cols[name] ELSE <<>>
      copy == IF HasCollection(cols, name) THEN fullCopy(c) ELSE Ref(<<>>, FALSE)
      filtered == IF Truthy(filter) THEN Ref(FilterFrom(filter, copy.arr, 1), FALSE)
                  ELSE copy
      sorted == IF Truthy(settings.sort)
                  THEN [filtered EXCEPT !.arr = Sort(settings.sort, @)] ELSE filtered
      skipped == IF settings.skip.type = "number"
                   THEN [sorted EXCEPT !.arr = SpliceFirst(@, settings.skip)] ELSE sorted
      limited == IF settings.limit.type = "number"
                   THEN [skipped EXCEPT !.arr = SpliceFrom(@, settings.limit)] ELSE skipped
  IN [ret |-> limited.arr, stored |-> IF limited.aliased THEN limited.arr ELSE c]

Fetch(name, filter, settings) ==
  LET r == fetch(collections, name, filter, settings)
  IN /\ collections' = IF HasCollection(collections, name)
                         THEN SetCollection(collections, name, r.stored)
                         ELSE collections
     /\ last' = [Step("fetch") EXCEPT !.arg = << name, filter, settings >>, !.ret = r.ret]
     /\ UNCHANGED << opts, collectionKeys, onChangeFuncs, subs, opGenId, ops, opHist,
                     methods, eventQueue, lifecycle >>

----------------------------------------------------------------------------
(* Diffs delivered by the server *)

\* documents a collection holds or is about to receive
RECURSIVE QueuedAdds(_, _)
QueuedAdds(q, name) ==
  IF q = <<>> THEN 0
  ELSE (IF Head(q).ev = "added" /\ Head(q).m.collection = name THEN 1 ELSE 0)
       + QueuedAdds(Tail(q), name)

Load(name) ==
  (IF HasCollection(collections, name) THEN Len(collections[name]) ELSE 0)
  + QueuedAdds(eventQueue, name)

RoomFor(data) == \A k \in DOMAIN data : Load(data[k][1]) + Len(data[k][2]) <= MaxDocs

ServerAdded(m) ==
  /\ Load(m.collection) < MaxDocs
  /\ DeliverDiff(Event("added", m, NoTag), eventQueue)

ServerChanged(m) ==
  /\ Load(m.collection) < MaxDocs
       \/ (HasCollection(collections, m.collection)
           /\ FindIndex(collections[m.collection], m.id) > 0)
  /\ DeliverDiff(Event("changed", m, NoTag), eventQueue)

ServerRemoved(m) == DeliverDiff(Event("removed", m, NoTag), eventQueue)

\* an added diff for an identifier the collection holds
ServerReplaced(m) ==
  /\ Found(collections, m) > 0
  /\ DeliverDiff(Event("added", m, NoTag), eventQueue)

----------------------------------------------------------------------------
(* Inputs *)

Coll == {"c", "d"}
Ids == {"x", "y"}

Obj1(k, v) == [f \in {k} |-> v]
Obj2(k1, v1, k2, v2) == [f \in {k1, k2} |-> IF f = k1 THEN v1 ELSE v2]

\* the diffs of the server for collection "c", and the few for collection "d"
FieldSets == { EmptyObj, Obj1("a", "x"), Obj1("b", "x") }
ClearedSets == { {}, {"a"} }

AddedMsgs ==
  { Msg("c", i, f, {}) : i \in Ids, f \in FieldSets } \cup { Msg("d", "x", EmptyObj, {}) }
ChangedMsgs ==
  { Msg("c", i, f, cl) : i \in Ids, f \in FieldSets, cl \in ClearedSets }
    \cup { Msg("d", "x", EmptyObj, {}) }
RemovedMsgs == { Msg(c, i, EmptyObj, {}) : c \in Coll, i \in Ids }

ListenerInputs ==
  { <<"c", cf, f>> : cf \in {"false", "aIsX"}, f \in {Undef, "first"} }
    \cup { <<"d", "false", "aIsX">> }

\* the diffs of the server while bulk operations run
BulkAddedMsgs == { Msg("c", "x", EmptyObj, {}), Msg("d", "x", EmptyObj, {}) }
BulkRemovedMsgs == { Msg("c", "x", EmptyObj, {}), Msg("d", "x", EmptyObj, {}) }

\* documents given to importData: written with `id`, or as exportData writes
\* them, with `_id`
ImportDocs == { Obj2("id", "y", "a", "x"), Obj2("_id", "x", "a", "y") }

RECURSIVE SeqsUpTo(_, _)
SeqsUpTo(S, n) ==
  IF n = 0 THEN { <<>> }
  ELSE LET shorter == SeqsUpTo(S, n - 1)
       IN shorter \cup { Append(s, x) : s \in shorter, x \in S }

ImportInputs ==
  { <<>> } \cup { << <<"c", docs>> >> : docs \in SeqsUpTo(ImportDocs, MaxImport) }

BulkListenerInputs == { <<"c", "false", Undef>>, <<"c", "false", "aIsX">> }

StoreOptions ==
  [autoConnect |-> FALSE, autoReconnect |-> FALSE, clearDataOnReconnection |-> TRUE,
   maxTimeout |-> 0]

InitStore == Constructed(StoreOptions)

----------------------------------------------------------------------------
(* The local store and its change listeners under the diffs of the server *)

NextDiff ==
  \/ \E l \in ListenerInputs : OnChange(l[1], l[2], l[3])
  \/ \E m \in AddedMsgs : ServerAdded(m)
  \/ \E m \in ChangedMsgs : ServerChanged(m)
  \/ \E m \in RemovedMsgs : ServerRemoved(m)

SpecDiff == InitStore /\ [][NextDiff]_vars

----------------------------------------------------------------------------
(* The bulk operations, interleaved with diffs of the server *)

NextBulk ==
  \/ \E l \in BulkListenerInputs : OnChange(l[1], l[2], l[3])
  \/ \E m \in BulkAddedMsgs : ServerAdded(m)
  \/ \E m \in BulkRemovedMsgs : ServerRemoved(m)
  \/ \E data \in ImportInputs : RoomFor(data) /\ ImportData(data)
  \/ ClearData
  \/ DeliverQueued

SpecBulk == InitStore /\ [][NextBulk]_vars

----------------------------------------------------------------------------
(* clearData alone, interleaved with diffs of the server *)

NextClear ==
  \/ \E l \in BulkListenerInputs : OnChange(l[1], l[2], l[3])
  \/ \E m \in BulkAddedMsgs : ServerAdded(m)
  \/ \E m \in BulkRemovedMsgs : ServerRemoved(m)
  \/ ClearData
  \/ DeliverQueued

SpecClear == InitStore /\ [][NextClear]_vars

----------------------------------------------------------------------------
(* importData, on an empty store and on a store that holds documents *)

\* documents written with `id`, and one written as exportData writes it
BatchDocs == { Obj2("id", "x", "a", "x"), Obj2("id", "y", "a", "x"), Obj2("_id", "x", "a", "y") }

BatchInputs ==
  { <<>> }
    \cup { << <<"c", docs>> >> : docs \in SeqsUpTo(BatchDocs, MaxBatch) }
    \cup { << <<"c", docs>>, <<"d", << Obj2("id", "x", "a", "x") >> >> >> :
             docs \in SeqsUpTo(BatchDocs, MaxBatch) }

BatchAddedMsgs == { Msg("c", "x", EmptyObj, {}) }

NextImport ==
  \/ \E m \in BatchAddedMsgs : ServerAdded(m)
  \/ \E data \in BatchInputs : RoomFor(data) /\ ImportData(data)
  \/ DeliverQueued

SpecImport == InitStore /\ [][NextImport]_vars

----------------------------------------------------------------------------
(* The connection lifecycle *)

LifeAddedMsgs == { Msg("c", "x", EmptyObj, {}) }
SubInputs == { <<"feed", [isArray |-> TRUE, items |-> <<1>>]>> }

InitLifecycle == \E o \in Options : Constructed(o)

NextLifecycle ==
  \/ Connect
  \/ Disconnect
  \/ \E k \in DOMAIN connects : ConnectTimeout(k)
  \/ DeliverConnected
  \/ DeliverDisconnected
  \/ \E m \in LifeAddedMsgs : ServerAdded(m)
  \/ \E s \in SubInputs : Sub(s[1], s[2])
  \/ \E k \in DOMAIN subs : StopSub(k)
  \/ DeliverQueued

SpecLifecycle == InitLifecycle /\ [][NextLifecycle]_vars

----------------------------------------------------------------------------
(* The subscription registry *)

Array(items) == [isArray |-> TRUE, items |-> items]

\* an argument that is not an array: sub(name) is NotArray(<<>>), and
\* NotArray(<<1, 2>>) is an array-like value such as an `arguments` object
NotArray(items) == [isArray |-> FALSE, items |-> items]

SubArgs ==
  { Array(<<1, 2>>), Array(<<1, 3>>), Array(<<1>>), Array(<<>>),
    NotArray(<<>>), NotArray(<<1, 2>>) }

RegistryInputs == { <<"feed", a>> : a \in SubArgs } \cup { <<"news", Array(<<1, 2>>)>> }

NextSub ==
  \/ \E i \in RegistryInputs : SubWithin(i[1], i[2], MaxSubCalls)
  \/ \E k \in DOMAIN subs : StopSub(k)

SpecSub == InitStore /\ [][NextSub]_vars

----------------------------------------------------------------------------
(* Method calls, their results and their timers *)

MethodOptions ==
  { [StoreOptions EXCEPT !.maxTimeout = t] : t \in {0, 1} }

\* result messages for the calls made and for one id no call has
ResultMsgs ==
  { Result(id, error, "r") : id \in 0..MaxCalls, error \in {Undef, "E"} }

InitMethod == \E o \in MethodOptions : Constructed(o)

NextMethod ==
  \/ Apply
  \/ \E message \in ResultMsgs : DeliverResult(message)
  \/ \E k \in DOMAIN methods : MethodTimeout(k)

SpecMethod == InitMethod /\ [][NextMethod]_vars

----------------------------------------------------------------------------
(* markAsReady, next to the ready messages of the server *)

\* the server reports subscription 1 ready
ServerReady == DeliverReadyEvent(Event("ready", ReadyMsg(<<1>>), NoTag), eventQueue)

ReadyInputs == { <<>> } \cup { <<k>> : k \in DOMAIN subs }

NextReady ==
  \/ \E i \in SubInputs : Sub(i[1], i[2])
  \/ \E ss \in ReadyInputs : MarkAsReady(ss)
  \/ \E m \in BatchAddedMsgs : ServerAdded(m)
  \/ ServerReady
  \/ DeliverReady

\* the Transport delivers every event handed to emit: its timer fires
SpecReady == InitStore /\ [][NextReady]_vars /\ WF_vars(DeliverReady)

----------------------------------------------------------------------------
(* fetch, on a store the server filled *)

\* the document dispatchAdded stores for identifier id and fields {v: v}
Doc(id, v) == NewObj(Msg("c", id, Obj1("v", v), {}))

QueryDocs == { Doc(1, 3), Doc(2, 1), Doc(3, 2), Doc(4, 1) }

\* the stored sequences: documents of QueryDocs, each at most once
StoredInputs ==
  { st \in SeqsUpTo(QueryDocs, MaxStored) : \A i, j \in DOMAIN st : st[i] = st[j] => i = j }

QueryFilters == { "false", "first", "vOver1" }

QuerySkips == { NoNumber, Num(0), Num(1), Infinity }
QueryLimits == { NoNumber, Num(1), Num(2), Infinity }

QuerySettings ==
  { Settings(skip, limit, sort) :
      skip \in QuerySkips, limit \in QueryLimits, sort \in {Undef} \cup Comparators }

InitFetch ==
  \E stored \in StoredInputs :
    /\ opts = StoreOptions
    /\ collections = [c \in {"c"} |-> stored]
    /\ collectionKeys = << "c" >>
    /\ onChangeFuncs = <<>>
    /\ subs = <<>>
    /\ connected = FALSE
    /\ tryingToConnect = FALSE
    /\ tryingToDisconnect = FALSE
    /\ willTryToReconnect = FALSE
    /\ opGenId = 0
    /\ ops = <<>>
    /\ connects = <<>>
    /\ disconnects = <<>>
    /\ methods = <<>>
    /\ socket = "closed"
    /\ eventQueue = <<>>
    /\ opHist = <<>>
    /\ last = Step("init")

NextFetch ==
  \/ \E filter \in QueryFilters, settings \in QuerySettings : Fetch("c", filter, settings)
  \/ Fetch("d", "false", NoSettings)

SpecFetch == InitFetch /\ [][NextFetch]_vars

----------------------------------------------------------------------------
(* clearData, importData and markAsReady running side by side *)

\* the values of _id of the instances of one process, and of their counters
Instances == {0, 1, 11}
Counters == 0..12

OpsImportInputs == { << <<"c", << Obj2("id", "y", "a", "x") >> >> >> }

NextOps ==
  \/ \E m \in BatchAddedMsgs : ServerAdded(m)
  \/ \E m \in BatchAddedMsgs : ServerRemoved(m)
  \/ ServerReady
  \/ \E data \in OpsImportInputs : RoomFor(data) /\ ImportData(data)
  \/ ClearData
  \/ MarkAsReady(<<>>)
  \/ DeliverQueued
  \/ DeliverReady

SpecOps == InitStore /\ [][NextOps]_vars

----------------------------------------------------------------------------
(* Change listeners that are stopped, between two diffs or by a callback *)

StopAddedMsgs == { Msg("c", i, f, {}) : i \in Ids, f \in { EmptyObj, Obj1("a", "x") } }
StopRemovedMsgs == { Msg("c", "x", EmptyObj, {}) }
ObserverInputs == { <<"c", "false", "aIsX", f>> : f \in Callbacks }

NextStop ==
  \/ \E l \in ObserverInputs : OnChangeWithin(l[1], l[2], l[3], l[4], MaxObservers)
  \/ StopChangeListeners
  \/ \E m \in StopAddedMsgs : ServerAdded(m)
  \/ \E m \in StopRemovedMsgs : ServerRemoved(m)

SpecStop == InitStore /\ [][NextStop]_vars

----------------------------------------------------------------------------
(* Added diffs for documents the store holds or does not hold *)

ReplacedFields == { EmptyObj, Obj1("a", "x") }
ReplacedMsgs == { Msg("c", i, f, {}) : i \in Ids, f \in ReplacedFields }
MissingMsgs ==
  { Msg("c", i, f, cl) : i \in Ids, f \in ReplacedFields, cl \in ClearedSets }
    \cup { Msg("d", "x", EmptyObj, {}) }
ReplacedListenerInputs == { <<"c", "false", "aIsX">>, <<"c", "false", "first">> }

NextAdded ==
  \/ \E l \in ReplacedListenerInputs : OnChangeWithin(l[1], l[2], l[3], "f", MaxObservers)
  \/ \E m \in ReplacedMsgs : ServerAdded(m)
  \/ \E m \in ReplacedMsgs : ServerReplaced(m)
  \/ \E m \in MissingMsgs : ServerChanged(m)
  \/ \E m \in RemovedMsgs : ServerRemoved(m)

SpecAdded == InitStore /\ [][NextAdded]_vars

----------------------------------------------------------------------------
(* Subscriptions started and stopped between reconnections *)

RestartOptions ==
  { [autoConnect |-> TRUE, autoReconnect |-> TRUE, clearDataOnReconnection |-> c,
     maxTimeout |-> 0] : c \in BOOLEAN }
RestartSubInputs == { <<"feed", Array(<<1>>)>>, <<"news", Array(<<>>)>> }

InitRestart == \E o \in RestartOptions : Constructed(o)

NextRestart ==
  \/ DeliverConnected
  \/ DeliverDisconnected
  \/ \E s \in RestartSubInputs : SubWithin(s[1], s[2], MaxSubCalls)
  \/ \E k \in DOMAIN subs : StopSub(k)
  \/ \E m \in LifeAddedMsgs : ServerAdded(m)
  \/ DeliverQueued

SpecRestart == InitRestart /\ [][NextRestart]_vars

----------------------------------------------------------------------------
(* Method calls pending while the connection is lost and made again *)

PendingOptions ==
  { [autoConnect |-> TRUE, autoReconnect |-> r, clearDataOnReconnection |-> FALSE,
     maxTimeout |-> t] : r \in BOOLEAN, t \in {0, 1} }

InitPending == \E o \in PendingOptions : Constructed(o)

NextPending ==
  \/ Apply
  \/ \E message \in ResultMsgs : DeliverResult(message)
  \/ \E k \in DOMAIN methods : MethodTimeout(k)
  \/ Connect
  \/ Disconnect
  \/ DeliverConnected
  \/ DeliverDisconnected

SpecPending == InitPending /\ [][NextPending]_vars

----------------------------------------------------------------------------
(* importData calls whose events the Transport goes on delivering *)

NextTerminate ==
  \/ \E data \in ImportInputs : RoomFor(data) /\ ImportData(data)
  \/ \E m \in BatchAddedMsgs : ServerAdded(m)
  \/ \E m \in BatchAddedMsgs : ServerRemoved(m)
  \/ DeliverQueued

SpecTerminate == InitStore /\ [][NextTerminate]_vars /\ WF_vars(DeliverQueued)

----------------------------------------------------------------------------
(* Claims about the local store and the bulk operations *)

Ident(doc) == Get(doc, "_id")

DocCount ==
  LET names == DOMAIN collections
      RECURSIVE Sum(_)
      Sum(S) == IF S = {} THEN 0
                ELSE LET c == CHOOSE x \in S : TRUE IN Len(collections[c]) + Sum(S \ {c})
  IN Sum(names)

\* the events in the queue that carry operation id `tag`
Tagged(ev, tag) ==
  { i \in DOMAIN eventQueue : eventQueue[i].ev = ev /\ eventQueue[i].tag = tag }

\* C1: in every reachable state, whatever added, changed and removed diffs the
\* server delivered or importData and clearData synthesized, no collection holds
\* two documents with the same identifier.
C1_UniqueIdentifiers ==
  \A c \in DOMAIN collections :
    \A i, j \in DOMAIN collections[c] :
      i # j => Ident(collections[c][i]) # Ident(collections[c][j])

\* C2: once a clearData() call has resolved, and no added or changed diff was
\* delivered since the call, every collection of the store is empty.
C2_ClearedStoreIsEmpty ==
  \A k \in DOMAIN ops :
    (ops[k].ev = "removed" /\ ops[k].resolved /\ ~opHist[k].touched)
      => \A c \in DOMAIN collections : collections[c] = <<>>

\* C3: clearData() on a store without documents resolves inside the call and
\* hands no event to the Transport; on a store with N > 0 documents it stays
\* pending and hands exactly N removed events carrying its operation id to the
\* Transport, and it is resolved only when exactly N removed events carrying
\* that id have been delivered.
C3_ClearDataCountsItsEvents ==
  /\ last.kind = "clearData" =>
       IF DocCount = 0
         THEN last.resolvedNow /\ last.emitted = 0 /\ Tagged("removed", opGenId) = {}
         ELSE /\ ~last.resolvedNow
              /\ last.emitted = DocCount
              /\ ops # <<>>
              /\ ops[Len(ops)].ev = "removed" /\ ~ops[Len(ops)].resolved
              /\ ops[Len(ops)].listening
              /\ Cardinality(Tagged("removed", ops[Len(ops)].id)) = DocCount
  /\ \A k \in DOMAIN ops :
       ops[k].ev = "removed" =>
         /\ ops[k].resolved => opHist[k].delivered = ops[k].total
         /\ opHist[k].delivered + Cardinality(Tagged("removed", ops[k].id)) = ops[k].total
         /\ ops[k].total > 0

C3_Witness ==
  \E k \in DOMAIN ops :
    /\ ops[k].ev = "removed" /\ ops[k].resolved /\ ops[k].total = 2
    /\ opHist[k].delivered = 2
    /\ last.kind = "removed" /\ last.tag = ops[k].id

\* the identifier of a document given to importData: its `id`, or its `_id`
\* when it is written as exportData writes it
DataIdent(doc) == IF "id" \in DOMAIN doc THEN doc["id"] ELSE Get(doc, "_id")

\* the documents data holds for collection `name`
DataDocs(data, name) ==
  IF \E i \in DOMAIN data : data[i][1] = name
    THEN data[CHOOSE i \in DOMAIN data : data[i][1] = name][2]
    ELSE <<>>

\* no two documents of one collection of data share an identifier
WellFormed(data) ==
  \A n \in DOMAIN data :
    \A i, j \in DOMAIN data[n][2] :
      i # j => DataIdent(data[n][2][i]) # DataIdent(data[n][2][j])

\* the stored document has the identifier and the fields of the imported one
SameDocument(stored, doc) ==
  /\ Ident(stored) = DataIdent(doc)
  /\ DeleteKeys(stored, {"_id"}) = DeleteKeys(doc, {"id", "_id"})

Fetched(name) == fetch(collections, name, "false", NoSettings).ret

\* C11: an importData(data) call emits one added event carrying its operation
\* id per document of data and is resolved only when exactly that many of them
\* have been delivered; once it is resolved, if the store was empty at the call
\* and nothing but its own events was delivered since, fetch() on each
\* collection returns the documents of data for that collection, identifier by
\* identifier and field by field, in the order of data (data whose documents
\* have distinct identifiers within a collection).
C11_ImportLeavesFetchEqualToData ==
  \A k \in DOMAIN ops :
    ops[k].ev = "added" =>
      LET data == opHist[k].data
      IN /\ ops[k].total = DataLen(data)
         /\ opHist[k].delivered + Cardinality(Tagged("added", ops[k].id)) = DataLen(data)
         /\ ops[k].resolved => (opHist[k].delivered = DataLen(data) /\ DataLen(data) > 0)
         /\ (ops[k].resolved /\ opHist[k].alone /\ WellFormed(data)) =>
              \A name \in Coll \cup DOMAIN collections :
                /\ Len(Fetched(name)) = Len(DataDocs(data, name))
                /\ \A i \in DOMAIN Fetched(name) :
                     SameDocument(Fetched(name)[i], DataDocs(data, name)[i])

C11_Witness ==
  \E k \in DOMAIN ops :
    /\ ops[k].ev = "added" /\ ops[k].resolved /\ opHist[k].alone
    /\ opHist[k].data = << <<"c", << Obj2("id", "y", "a", "x"), Obj2("_id", "x", "a", "y") >> >>,
                            <<"d", << Obj2("id", "x", "a", "x") >> >> >>
    /\ Fetched("c") = << Obj2("_id", "y", "a", "x"), Obj2("_id", "x", "a", "y") >>
    /\ Fetched("d") = << Obj2("_id", "x", "a", "x") >>

----------------------------------------------------------------------------
(* Claims about the connection lifecycle *)

\* C4: connect() calls Transport.connect exactly when the client is neither
\* connecting nor connected before the call; called while connected it resolves
\* inside the call and makes no Transport.connect call.
C4_ConnectContactsTransportOnlyWhenIdle ==
  last.kind = "connect" =>
    /\ last.transport = "connect"
         <=> (~last.pre.tryingToConnect /\ ~last.pre.connected)
    /\ last.pre.connected => (last.resolvedNow /\ last.transport = "none")

\* C5: the future of a connect() call made while not connected is settled at
\* most once: the next connected event resolves it, unless its timer, armed only
\* when a maximum wait is configured, rejected it first; without a maximum wait
\* it is never rejected; a connected event after the rejection does not settle
\* it again.
C5_ConnectFutureSettlesOnce ==
  /\ \A k \in DOMAIN connects :
       /\ connects[k].settles <= 1
       /\ connects[k].state = "pending" <=> connects[k].settles = 0
       /\ connects[k].state = "pending" => connects[k].handler
       /\ connects[k].state = "rejected" => opts.maxTimeout # 0
       /\ connects[k].timer => (opts.maxTimeout # 0 /\ connects[k].state = "pending")
       /\ (connects[k].state = "pending" /\ opts.maxTimeout # 0) => connects[k].timer
  /\ last.kind = "connected" => \A k \in DOMAIN connects : connects[k].state # "pending"
  /\ last.kind = "connect" =>
       IF last.pre.connected THEN last.resolvedNow
       ELSE connects # <<>> /\ connects[Len(connects)].state = "pending"

C5_Witness ==
  /\ last.kind = "connected"
  /\ \E k \in DOMAIN connects : connects[k].state = "rejected" /\ connects[k].settles = 1

\* C6: disconnect() called while connected, no earlier disconnect() still
\* waiting for its disconnected event, calls Transport.disconnect and stays
\* pending until the next disconnected event resolves it; called while not
\* connected it resolves inside the call.
C6_DisconnectContactsTransport ==
  /\ (last.kind = "disconnect" /\ last.pre.connected /\ last.pre.awaiting = 0) =>
       /\ last.transport = "disconnect"
       /\ ~last.resolvedNow
       /\ disconnects[Len(disconnects)].state = "pending"
  /\ (last.kind = "disconnect" /\ ~last.pre.connected) => last.resolvedNow
  /\ last.kind = "disconnected" =>
       \A k \in DOMAIN disconnects : disconnects[k].state = "resolved"

C8_ReadyAfterClear ==
  /\ last.kind = "connected" =>
       IF opts.clearDataOnReconnection
         THEN IF DocCount = 0
                THEN last.readied = 1 /\ last.emitted = 0
                ELSE /\ last.readied = 0 /\ last.restarted = {}
                     /\ last.emitted = DocCount
                     /\ ops # <<>>
                     /\ ops[Len(ops)].thenReady /\ ~ops[Len(ops)].resolved
         ELSE last.readied = 1 /\ last.emitted = 0
  /\ \A k \in DOMAIN ops :
       ops[k].thenReady =>
         /\ opts.clearDataOnReconnection
         /\ opHist[k].readied <=> ops[k].resolved
         /\ ops[k].resolved => opHist[k].delivered = ops[k].total
  /\ ~opts.clearDataOnReconnection =>
       /\ eventQueue = <<>>
       /\ last.readied > 0 => last.kind = "connected"
  /\ last.readied > 0 => last.restarted = restartSubs(subs)
  /\ (last.readied > 0 /\ last.kind # "connected") =>
       \E k \in DOMAIN ops : ops[k].thenReady /\ ops[k].resolved /\ last.tag = ops[k].id

C8_Witness ==
  /\ last.kind = "removed" /\ last.readied = 1 /\ last.restarted = {1}
  /\ \E k \in DOMAIN ops : ops[k].thenReady /\ ops[k].resolved /\ opHist[k].readied

----------------------------------------------------------------------------
(* Claims about the diffs and the change listeners *)

\* the index of the document of `arr` whose identifier is id
Position(arr, id) == CHOOSE i \in DOMAIN arr : Ident(arr[i]) = id

Existing(cols, m) ==
  /\ m.collection \in DOMAIN cols
  /\ \E i \in DOMAIN cols[m.collection] : Ident(cols[m.collection][i]) = m.id

\* C9: a changed diff for an existing document leaves the document where it is,
\* deletes the fields named in `cleared`, sets the fields named in `fields` to
\* the given values (a field named in both ends deleted: the deletions run
\* after the assignments), keeps every other field of the document, and changes
\* no other document of any collection.
C9_ChangedTouchesNamedFieldsOnly ==
  [][ (last'.kind = "changed" /\ Existing(collections, last'.m)) =>
        LET m == last'.m
            c == m.collection
            i == Position(collections[c], m.id)
            old == collections[c][i]
            new == collections'[c][i]
        IN /\ DOMAIN collections' = DOMAIN collections
           /\ \A o \in DOMAIN collections \ {c} : collections'[o] = collections[o]
           /\ Len(collections'[c]) = Len(collections[c])
           /\ \A j \in DOMAIN collections[c] \ {i} : collections'[c][j] = collections[c][j]
           /\ \A k \in m.cleared : k \notin DOMAIN new
           /\ \A k \in DOMAIN m.fields \ m.cleared : k \in DOMAIN new /\ new[k] = m.fields[k]
           /\ \A k \in (DOMAIN old \cup DOMAIN new) \ (DOMAIN m.fields \cup m.cleared) :
                k \in DOMAIN old /\ k \in DOMAIN new /\ new[k] = old[k]
    ]_vars

C9_Witness ==
  /\ last.kind = "changed" /\ last.d.kind = "changed"
  /\ last.m = Msg("c", "y", Obj1("b", "x"), {"a"})
  /\ "a" \in DOMAIN last.d.prev
  /\ Len(collections["c"]) = 2
  /\ Ident(collections["c"][2]) = "y"
  /\ "a" \in DOMAIN collections["c"][1]
  /\ "d" \in DOMAIN collections /\ collections["d"] # <<>>

Invoked(k) == \E n \in DOMAIN last.d.calls : last.d.calls[n].l = k

\* what the claim expects of listener l for the diff of the last step
Expected(l) ==
  /\ l.collection = last.m.collection
  /\ IF IsFunction(l.filter)
       THEN LET arr == collections[last.m.collection]
            IN CASE last.d.kind = "added" ->
                      Pred(l.filter, last.d.next, Len(arr) - 1, arr)
                 [] last.d.kind = "changed" ->
                      \/ Pred(l.filter, last.d.prev, last.d.found - 1, arr)
                      \/ Pred(l.filter, last.d.next, last.d.found - 1, arr)
                 [] OTHER -> Pred(l.filter, last.d.prev, last.d.found - 1, arr)
       ELSE TRUE

\* a diff that adds, changes or removes a document
Effective ==
  /\ last.kind \in {"added", "changed", "removed"}
  /\ last.d.kind = "removed" => last.d.found > 0

\* C10: for every diff, a listener with a predicate on the diff's collection is
\* invoked iff the predicate holds of the new document (added), of the previous
\* or the next copy (changed, existing document), of the removed document
\* (removed, existing document); a listener without a predicate on that
\* collection is invoked for every such diff; listeners of other collections
\* are never invoked.
C10_ListenersInvokedByPredicate ==
  Effective => \A k \in DOMAIN onChangeFuncs : Invoked(k) <=> Expected(onChangeFuncs[k])

----------------------------------------------------------------------------
(* Claims about subscriptions and method calls *)

\* the subscriptions of ss registered for this name and these arguments
Registered(ss, pubname, args) ==
  { k \in DOMAIN ss : ss[k].pubname = pubname /\ ss[k].args = NormArgs(args) }

\* C12: the registry never holds two Subscriptions with the same name and
\* deep-equal arguments (an argument that is not an array counts as the empty
\* array); sub(name, args) for a registered pair returns the registered instance
\* and does not grow the registry, for any other pair it appends and returns a
\* new instance, different from every instance registered before; no call
\* changes the name or the arguments of a registered instance.
C12_OneSubscriptionPerPair ==
  [][ /\ \A i, j \in DOMAIN subs' :
           (subs'[i].pubname = subs'[j].pubname /\ subs'[i].args = subs'[j].args) => i = j
      /\ \A k \in DOMAIN subs :
           /\ k \in DOMAIN subs'
           /\ subs'[k].pubname = subs[k].pubname /\ subs'[k].args = subs[k].args
      /\ last'.kind = "sub" =>
           LET had == Registered(subs, last'.arg[1], last'.arg[2])
           IN IF had # {}
                THEN last'.ret \in had /\ Len(subs') = Len(subs)
                ELSE /\ Len(subs') = Len(subs) + 1
                     /\ last'.ret = Len(subs')
                     /\ last'.ret \notin DOMAIN subs
                     /\ Registered(subs', last'.arg[1], last'.arg[2]) = { last'.ret }
    ]_vars

C12_Witness ==
  /\ last.kind = "sub" /\ last.arg = << "feed", Array(<<1, 2>>) >> /\ last.ret = 1
  /\ Len(subs) = 2
  /\ subs[1].pubname = "feed" /\ subs[1].args = <<1, 2>>
  /\ subs[2].pubname = "feed" /\ subs[2].args = <<1, 3>>

\* C13: a pending apply() call keeps its result listener registered; a result
\* message whose id is the call's correlation id resolves it with the message's
\* result when the message has no error and rejects it with the message's
\* error otherwise, and deregisters the listener; a result message with any
\* other id leaves the call as it was, pending and listening; nothing but such a
\* message, or the call's own timer when a maximum wait is configured, settles
\* the call.
C13_ResultSettlesByCorrelationId ==
  [][ \A k \in DOMAIN methods :
        /\ methods[k].state = "pending" => methods[k].listener
        /\ (last'.kind = "result" /\ methods[k].state = "pending") =>
             IF last'.arg.id = methods[k].id
               THEN /\ ~methods'[k].listener
                    /\ IF last'.arg.error = Undef
                         THEN /\ methods'[k].state = "resolved"
                              /\ methods'[k].value = last'.arg.result
                         ELSE /\ methods'[k].state = "rejected"
                              /\ methods'[k].value = last'.arg.error
               ELSE methods'[k] = methods[k]
        /\ (methods[k].state = "pending" /\ methods'[k].state # "pending") =>
             \/ last'.kind = "result" /\ last'.arg.id = methods[k].id
             \/ last'.kind = "methodTimeout" /\ last'.arg = k /\ opts.maxTimeout # 0
    ]_vars

C13_Witness ==
  /\ last.kind = "result" /\ last.arg = Result(1, "E", "r")
  /\ Len(methods) = 2
  /\ methods[1].state = "pending" /\ methods[1].listener
  /\ methods[2].state = "rejected" /\ methods[2].value = "E" /\ ~methods[2].listener

\* C14: with a maximum wait configured, a pending call has its timer armed and
\* its listener registered; the first of the matching result and the timer's
\* expiry settles the call, once, and leaves the listener deregistered and the
\* timer disarmed; from then on no step changes the call: a matching result
\* after the expiry is ignored and the timer does not fire after a result.
C14_FirstOfResultAndTimeoutWins ==
  [][ opts.maxTimeout # 0 =>
        \A k \in DOMAIN methods :
          /\ methods[k].settles <= 1
          /\ methods[k].state = "pending" <=> methods[k].settles = 0
          /\ methods[k].state = "pending" => (methods[k].timer /\ methods[k].listener)
          /\ methods[k].state # "pending" =>
               /\ ~methods[k].timer /\ ~methods[k].listener
               /\ methods'[k] = methods[k]
          /\ (methods[k].state = "pending" /\ last'.kind = "methodTimeout" /\ last'.arg = k) =>
               /\ methods'[k].state = "rejected" /\ methods'[k].value = "MAX_TIMEOUT_REACHED"
               /\ methods'[k].settles = 1
               /\ ~methods'[k].timer /\ ~methods'[k].listener
          /\ (methods[k].state = "pending" /\ last'.kind = "result"
                /\ last'.arg.id = methods[k].id) =>
               /\ methods'[k].state # "pending" /\ methods'[k].settles = 1
               /\ ~methods'[k].timer /\ ~methods'[k].listener
    ]_vars

C14_Witness ==
  /\ opts.maxTimeout # 0
  /\ last.kind = "result" /\ last.arg = Result(0, Undef, "r")
  /\ methods # <<>>
  /\ methods[1].state = "rejected" /\ methods[1].value = "MAX_TIMEOUT_REACHED"
  /\ methods[1].settles = 1

\* C15: every markAsReady(subs) call hands exactly one ready message carrying
\* its operation id to the Transport; the call is resolved exactly when that
\* message has been delivered, ready messages without its id leave it pending,
\* and, the Transport delivering what it was handed, every call is eventually
\* resolved.
C15_MarkAsReadyResolves ==
  /\ [](\A k \in DOMAIN ops :
          ops[k].ev = "ready" =>
            /\ opHist[k].delivered + Cardinality(Tagged("ready", ops[k].id)) = 1
            /\ ops[k].resolved <=> opHist[k].delivered = 1
            /\ ops[k].listening <=> ~ops[k].resolved)
  /\ [](last.kind = "markAsReady" => last.emitted = 1)
  /\ \A k \in 1..MaxOps :
       (k \in DOMAIN ops /\ ops[k].ev = "ready") ~> (k \in DOMAIN ops /\ ops[k].resolved)

C15_Witness ==
  /\ last.kind = "ready" /\ last.tag = NoTag
  /\ Len(ops) = 2
  /\ ops[1].ev = "ready" /\ ops[1].resolved /\ opHist[1].delivered = 1
  /\ ops[2].ev = "ready" /\ ~ops[2].resolved /\ ops[2].listening
  /\ Cardinality(Tagged("ready", ops[2].id)) = 1

----------------------------------------------------------------------------
(* Claims about queries *)

\* the positions of `stored` the collection filter keeps
QueryKept(stored, filter) ==
  IF filter = "false" THEN DOMAIN stored
  ELSE { i \in DOMAIN stored : Pred(filter, stored[i], i - 1, stored) }

\* whether the document at position j comes before the one at position i in
\* the result: by the comparator, and by stored position where it says equal
\* or where there is none
QueryBefore(stored, cmp, j, i) ==
  IF cmp = Undef THEN j < i
  ELSE \/ Compare(cmp, stored[j], stored[i]) < 0
       \/ Compare(cmp, stored[j], stored[i]) = 0 /\ j < i

\* the place, from 1, of position i among the positions S
QueryRank(stored, cmp, S, i) ==
  1 + Cardinality({ j \in S : QueryBefore(stored, cmp, j, i) })

\* how many elements `skip` drops from n, and how many `limit` keeps of n
QueryDropped(n, skip) ==
  IF skip.type # "number" THEN 0 ELSE IF skip.inf \/ skip.n >= n THEN n ELSE skip.n

QueryTaken(n, limit) ==
  IF limit.type # "number" \/ limit.inf \/ limit.n >= n THEN n ELSE limit.n

\* the documents at the positions S: ordered, the first `skip` dropped, the
\* rest cut to `limit`
QueryExpected(stored, S, settings) ==
  LET dropped == QueryDropped(Cardinality(S), settings.skip)
      taken == QueryTaken(Cardinality(S) - dropped, settings.limit)
  IN [a \in 1..taken |->
        stored[CHOOSE i \in S : QueryRank(stored, settings.sort, S, i) = a + dropped]]

QueryStored(name) == IF name \in DOMAIN collections THEN collections[name] ELSE <<>>

QueryExample == << Doc(1, 3), Doc(2, 1), Doc(3, 2) >>

\* C16: fetch(settings) returns the stored documents the collection filter
\* keeps (the filter sees each document with its stored position), put in the
\* order of the sort comparator (stable), without the first `skip` of them,
\* cut to the first `limit` of what is left; the stored sequence is the same
\* after the call; for the stored documents (1, v 3), (2, v 1), (3, v 2), sort
\* ascending by v, skip 1 and limit 1 it returns the document (3, v 2) alone.
\* skip and limit range over undefined, Infinity and the numbers from 0 on.
C16_FetchFilterSortSkipLimit ==
  [][ last'.kind = "fetch" =>
        LET name == last'.arg[1]
            filter == last'.arg[2]
            settings == last'.arg[3]
            stored == QueryStored(name)
        IN /\ collections' = collections
           /\ last'.ret = QueryExpected(stored, QueryKept(stored, filter), settings)
           /\ (stored = QueryExample /\ filter = "false"
                 /\ settings = Settings(Num(1), Num(1), "byV"))
                => last'.ret = << Doc(3, 2) >>
    ]_vars

C16_Witness ==
  /\ last.kind = "fetch"
  /\ last.arg = << "c", "false", Settings(Num(1), Num(1), "byV") >>
  /\ collections["c"] = QueryExample
  /\ last.ret = << Doc(3, 2) >>

----------------------------------------------------------------------------
(* Claims about the operation ids *)

\* the events of the queue that carry operation id `tag`, of whatever kind
Carrying(tag) == { i \in DOMAIN eventQueue : eventQueue[i].tag = tag }

\* C17: the bulk operations of an instance take ids that differ from one
\* another and are not taken again; the id strings of the operations of any two
\* instances differ; every event carrying the id of an operation was emitted
\* for it and is of its kind; the counter of an operation advances only in a
\* step that delivers an event of its kind carrying its id, so an operation is
\* resolved only when all the events emitted for it, and not those of the
\* server or of another operation, have been delivered.
C17_OperationIdsAreUniqueAndCounted ==
  /\ [](/\ \A k, j \in DOMAIN ops : k # j => ops[k].id # ops[j].id
        /\ \A k \in DOMAIN ops :
             /\ ops[k].id < opGenId
             /\ \A i \in Carrying(ops[k].id) : eventQueue[i].ev = ops[k].ev
             /\ ops[k].counter <= opHist[k].delivered
             /\ opHist[k].delivered + Cardinality(Carrying(ops[k].id)) = ops[k].total
             /\ ops[k].resolved => opHist[k].delivered = ops[k].total
        /\ \A i \in DOMAIN eventQueue :
             eventQueue[i].tag # NoTag => \E k \in DOMAIN ops : ops[k].id = eventQueue[i].tag
        /\ \A i, j \in Instances : \A n \in Counters : \A k \in DOMAIN ops :
             UniqueId(i, n) = UniqueId(j, ops[k].id) => (i = j /\ n = ops[k].id))
  /\ [][ \A k \in DOMAIN ops :
            ops'[k].counter # ops[k].counter =>
              /\ last'.kind = ops[k].ev /\ last'.tag = ops[k].id
              /\ ops'[k].counter = ops[k].counter + 1
       ]_vars

C17_Witness ==
  /\ Len(ops) = 2
  /\ ops[1].ev = "added" /\ ops[1].total = 1 /\ ops[1].resolved
  /\ ops[2].ev = "removed" /\ ~ops[2].resolved /\ ops[2].counter = 0
  /\ last.kind = "removed" /\ last.tag = NoTag /\ last.d.found > 0

----------------------------------------------------------------------------
(* Claims about stopping the change listeners *)

\* the step called stopChangeListeners(): the application did, or a callback
\* invoked by the dispatcher of the step did
StopStep ==
  \/ last'.kind = "stopChangeListeners"
  \/ StopCalled(onChangeFuncs, last'.d.calls)

\* C18: once stopChangeListeners() is called, no listener registered before
\* the call is invoked: none of them is left among the listeners the
\* dispatchers go through for the diffs that follow, and in a dispatch during
\* which a callback calls it, no listener is invoked after that callback.
C18_StopReachesListenersOfDispatchInProgress ==
  [][ /\ StopStep => onChangeFuncs' = <<>>
      /\ \A i, j \in DOMAIN last'.d.calls :
           (i < j /\ last'.kind \in {"added", "changed", "removed"})
             => onChangeFuncs[last'.d.calls[i].l].f # "stop"
    ]_vars

----------------------------------------------------------------------------
(* Claims about added diffs for stored documents, and changed diffs for
   documents that are not stored *)

\* C19: an added diff whose identifier the collection holds replaces the
\* stored document: the collection keeps its length and its other documents
\* in their order, the new document, made of the identifier and the fields of
\* the diff only, is its last element, no other collection changes, no
\* listener is told of a removal (every notification carries no previous
\* document and the new document as next), and no listener is invoked twice.
C19_AddedReplacesStoredDocument ==
  [][ (last'.kind = "added" /\ Existing(collections, last'.m)) =>
        LET m == last'.m
            c == m.collection
            i == Position(collections[c], m.id)
            old == collections[c]
            new == collections'[c]
            calls == last'.d.calls
        IN /\ DOMAIN collections' = DOMAIN collections
           /\ \A o \in DOMAIN collections \ {c} : collections'[o] = collections[o]
           /\ Len(new) = Len(old)
           /\ SubSeq(new, 1, Len(new) - 1) = RemoveAt(old, i)
           /\ Ident(new[Len(new)]) = m.id
           /\ DeleteKeys(new[Len(new)], {"_id"}) = m.fields
           /\ \A n \in DOMAIN calls :
                /\ calls[n].shape # "removed"
                /\ calls[n].prev = NoDoc /\ calls[n].next = new[Len(new)]
                /\ onChangeFuncs[calls[n].l].collection = c
           /\ \A n1, n2 \in DOMAIN calls : calls[n1].l = calls[n2].l => n1 = n2
    ]_vars

\* the first document of a collection of two was replaced, and both listeners
\* were told once
C19_Witness ==
  /\ last.kind = "added" /\ last.d.found = 1
  /\ last.m = Msg("c", "x", Obj1("a", "x"), {})
  /\ Len(collections["c"]) = 2
  /\ Ident(collections["c"][1]) = "y"
  /\ collections["c"][2] = Obj2("_id", "x", "a", "x")
  /\ Len(onChangeFuncs) = 2 /\ Len(last.d.calls) = 2
  /\ last.d.calls[1].l = 1 /\ last.d.calls[2].l = 2

\* C20: a changed diff for an identifier the collection does not hold leaves
\* the store that dispatchAdded leaves for the added diff with the same
\* collection, identifier and fields, and makes the same notifications, in the
\* same order, as dispatchAdded makes for it.
C20_ChangedForMissingDocumentIsAdded ==
  [][ (last'.kind = "changed" /\ ~Existing(collections, last'.m)) =>
        LET m == last'.m
            added == dispatchAdded(collections, onChangeFuncs,
                                   Msg(m.collection, m.id, m.fields, {}))
        IN /\ collections' = added.cols
           /\ collectionKeys' = KeysAfter(collectionKeys, added.cols)
           /\ last'.d = Summary(added)
    ]_vars

\* a changed diff that names a field in `cleared` too created document y
\* behind document x, and both listeners were told of an added document
C20_Witness ==
  /\ last.kind = "changed" /\ last.d.kind = "added" /\ last.d.found = 0
  /\ last.m = Msg("c", "y", Obj1("a", "x"), {"a"})
  /\ Len(collections["c"]) = 2
  /\ Ident(collections["c"][1]) = "x"
  /\ collections["c"][2] = Obj2("_id", "y", "a", "x")
  /\ Len(onChangeFuncs) = 2 /\ Len(last.d.calls) = 2
  /\ \A n \in DOMAIN last.d.calls :
       last.d.calls[n].prev = NoDoc /\ last.d.calls[n].next = collections["c"][2]

----------------------------------------------------------------------------
(* Claims about the restart of the subscriptions *)

\* C21: a step that runs the restart of the subscriptions, on a connected
\* event or when the clear operation the connected event started resolves,
\* restarts the subscriptions active at that moment and no other, and leaves
\* the registry, and the active or stopped state of each subscription, as
\* they were.
C21_RestartTakesActiveSubscriptionsOnly ==
  [][ last'.readied > 0 =>
        /\ last'.kind \in {"connected", "removed"}
        /\ last'.restarted = { k \in DOMAIN subs : subs[k].on }
        /\ subs' = subs
    ]_vars

\* the clear operation of a reconnection resolved while the first subscription
\* was stopped and the second active
C21_Witness ==
  /\ last.kind = "removed" /\ last.readied = 1
  /\ Len(subs) = 2
  /\ ~subs[1].on /\ subs[2].on
  /\ last.restarted = {2}

----------------------------------------------------------------------------
(* Claims about method calls and the connection *)

\* C22: a disconnected or connected event leaves every method call as it is,
\* pending with its result listener registered if it was; a call changes only
\* in a step that delivers a result message with its id or fires its own
\* timer, and a call that is pending has its result listener registered.
C22_PendingCallsOutliveTheConnection ==
  [][ \A k \in DOMAIN methods :
        /\ k \in DOMAIN methods'
        /\ methods[k].state = "pending" => methods[k].listener
        /\ last'.kind \in {"connected", "disconnected", "connect", "disconnect"} =>
             methods'[k] = methods[k]
        /\ methods'[k] # methods[k] =>
             \/ last'.kind = "result" /\ last'.arg.id = methods[k].id
             \/ last'.kind = "methodTimeout" /\ last'.arg = k
    ]_vars

\* a disconnected event came while the first call was pending, with its
\* listener and its timer, and the second was resolved
C22_Witness ==
  /\ last.kind = "disconnected"
  /\ Len(methods) = 2
  /\ methods[1].state = "pending" /\ methods[1].listener /\ methods[1].timer
  /\ methods[2].state = "resolved"
  /\ disconnects # <<>> /\ disconnects[1].state = "resolved"

----------------------------------------------------------------------------
(* Claims about the termination of importData *)

\* C23: every importData call is resolved at some time after the Transport
\* has delivered all the events the call emitted, whatever data holds, data
\* without any document included.
C23_ImportDataEventuallyResolves ==
  \A k \in 1..MaxOps :
    (k \in DOMAIN ops /\ ops[k].ev = "added" /\ Carrying(ops[k].id) = {})
      ~> (k \in DOMAIN ops /\ ops[k].resolved)

----------------------------------------------------------------------------
(* Claims about what sub() leaves alone *)

\* C24: a sub() call, whether it creates the subscription, resumes it or
\* finds it active, makes no method call and registers no result listener:
\* the method calls and their result listeners are after it what they were
\* before it.
C24_SubMakesNoMethodCall ==
  [][ last'.kind = "sub" =>
        /\ Len(methods') = Len(methods)
        /\ { k \in DOMAIN methods' : methods'[k].listener }
             = { k \in DOMAIN methods : methods[k].listener }
        /\ methods' = methods
    ]_vars

====
